---- MODULE Spec2Model ----
(***************************************************************************)
(* The log shipper of package logging (pitcher.go): producers call Write,  *)
(* the ingestion loop transferLogEntries batches the lines and, on every   *)
(* tick of the reporting interval, hands a snapshot to a flush goroutine   *)
(* that sends it over a shared gob encoder guarded by encoderLock.  The    *)
(* Logger of logging.go, its level set and the destinations of its         *)
(* entries, is examined in specifications of its own.                      *)
(*                                                                         *)
(* A log line is an opaque byte buffer.  A line the loop has received is   *)
(* represented by its ordinal among the received lines (1 for the first    *)
(* one), so that every line is distinguishable and its place in the order  *)
(* of acceptance can be read off it.                                       *)
(***************************************************************************)
EXTENDS Integers, Sequences, FiniteSets, TLC

\* ------------------------------------------------------------------ bounds
MaxWrites == 3   \* non-empty Write calls made when ticks arrive at any time
MaxEntryLevels == 2   \* bits set in the level argument of a logging call

\* the arguments of Write: a nil buffer, an empty one, a line
Buffers == {"nil", "empty", "line"}

\* len(p): producer w writes lines of w bytes
PLen(w, p) == IF p = "line" THEN w ELSE 0

VARIABLES
    lines,          \* transferLogEntries: the pending buffer
    unsentLines,    \* transferLogEntries: lines of failed sends
    maxUnsentLines, \* transferLogEntries: capacity of unsentLines
    enc,            \* transferLogEntries: 0 is nil, else the connection the encoder writes to
    err,            \* transferLogEntries: the err variable shared by the closures, "nil" or "error"
    encoderLock,    \* 0 when unlocked, else the flush goroutine holding it
    units,          \* the flush goroutines spawned so far, in spawn order
    quit,           \* TRUE once settings.quit is closed
    loopDone,       \* TRUE once transferLogEntries has returned
    wr,             \* per producer: the state of its current Write call
    written,        \* number of non-empty Write calls made so far
    accepted,       \* number of lines received from settings.entry so far
    writeBudget,    \* number of non-empty Write calls the producers make
    conns,          \* the sockets that were opened and not closed, in order, with the records written
    localEntries,   \* the writeLocalEntry calls made, in order
    order,          \* history: the flush goroutines in the order in which they took encoderLock
    tickAt,         \* environment: the numbers of pending lines at which a tick can arrive
    reachable,      \* environment: TRUE once the collector is reachable for good
    mayClose,       \* environment: TRUE when the owner of the shipper calls Close at some time
    atClose,        \* history: the lines in lines or unsentLines, and not sent, when Close was called
    lateLines,      \* history: the received lines whose Write was called after Close
    unitsAtClose,   \* history: the number of flush goroutines spawned when Close was called
    panicked,       \* TRUE once a call of Close has panicked
    logger,         \* a Logger: its fields jsonWriter, textWriter, jsonChannel, logLevel
    lastEntry,      \* what the last logging call on the Logger wrote: text and JSON entries
    exited          \* TRUE once a logging call has called os.Exit

vars == <<lines, unsentLines, maxUnsentLines, enc, err, encoderLock, units,
          quit, loopDone, wr, written, accepted, writeBudget, conns,
          localEntries, order, tickAt, reachable, mayClose, atClose, lateLines, unitsAtClose, panicked, logger, lastEntry, exited>>

\* the goroutines that call Write
Producers == DOMAIN wr

\* ------------------------------------------------------------------ helpers
\* s[len(s)-n:]
LastN(s, n) == SubSeq(s, Len(s) - n + 1, Len(s))

Range(s) == {s[i] : i \in 1..Len(s)}

\* the lines of the batches encoded with success, on any connection
Wired ==
    UNION {UNION {Range(conns[c].wire[i].lines) : i \in 1..Len(conns[c].wire)} :
               c \in 1..Len(conns)}

\* a producer that has not called Write yet
IdleWrite == [pc |-> "idle", p |-> "nil", n |-> 0, err |-> "nil"]

\* ------------------------------------------------------------------ logger (logging.go)
\* lines 27-37: a Level is a set of bits, modelled as the set of their
\* positions; All = 0xFFFF has the seven named bits and unnamed ones, of
\* which one, Unnamed, is kept
Debug == 0
Info == 1
Warning == 2
Error == 3
Critical == 4
Fatal == 5
Metrics == 6
Unnamed == 7
NamedLevels == {Debug, Info, Warning, Error, Critical, Fatal, Metrics}
All == NamedLevels \cup {Unnamed}
None == {}

\* New, lines 40-53, followed by SetLogLevel(level), lines 140-142: text to
\* stdout, JSON to /dev/null, no channel
NewLogger(level) ==
    [textWriter |-> "stdout", jsonWriter |-> "/dev/null", jsonChannel |-> 0, logLevel |-> level]

\* before the first logging call: nothing was written
NoEntry == [call |-> <<>>, text |-> <<>>, json |-> <<>>]

\* the Logger of the shipper's process, on which no call is made here
LoggerIdle ==
    /\ logger = NewLogger(All)
    /\ lastEntry = NoEntry
    /\ exited = FALSE

\* ------------------------------------------------------------------ initial state
\* newCatcherWriter: unbuffered entry and quit channels, the loop started;
\* transferLogEntries: the locals before the first iteration
InitWith(cap, budget, producers, ticks, closes) ==
    /\ lines = <<>>
    /\ unsentLines = <<>>
    /\ maxUnsentLines = cap
    /\ enc = 0
    /\ err = "nil"
    /\ encoderLock = 0
    /\ units = <<>>
    /\ quit = FALSE
    /\ loopDone = FALSE
    /\ wr = [p \in 1..producers |-> IdleWrite]
    /\ written = 0
    /\ accepted = 0
    /\ writeBudget = budget
    /\ conns = <<>>
    /\ localEntries = <<>>
    /\ order = <<>>
    /\ tickAt = ticks
    /\ reachable = FALSE
    /\ mayClose = closes
    /\ atClose = {}
    /\ lateLines = {}
    /\ unitsAtClose = 0
    /\ panicked = FALSE

\* The capacity, 10000 in the source, is scaled down.  The environments:
\*  - capacity 2, two producers writing MaxWrites lines, a tick can arrive
\*    at any time, the shipper is left open;
\*  - capacity 5, one producer writing 9 lines, 3 in every reporting
\*    interval, the shipper is left open;
\*  - capacity 5, one producer writing 5 lines, 2 or 3 in every reporting
\*    interval, the shipper is left open;
\*  - capacity 2, two producers writing 2 lines, a tick can arrive at any
\*    time, and the owner calls Close at any time.
Init ==
    /\ \/ InitWith(2, MaxWrites, 2, 0..MaxWrites, FALSE)
       \/ InitWith(5, 9, 1, {3}, FALSE)
       \/ InitWith(5, 5, 1, {2, 3}, FALSE)
       \/ InitWith(2, 2, 2, 0..2, TRUE)
    /\ LoggerIdle

\* ------------------------------------------------------------------ producers
\* line 55: return len(p), nil; lines 51-53: return 0, nil (the argument of a
\* call that has returned is not kept)
WriteReturn(w, p) == [pc |-> "returned", p |-> "nil", n |-> PLen(w, p), err |-> "nil"]

\* mutant: Write without the test of lines 51-53, the loop receives the
\* empty buffer as a line
WriteEmptyReceived(w, p) ==
    /\ wr[w].pc \in {"idle", "returned"}
    /\ p \in {"nil", "empty"}
    /\ ~loopDone
    /\ wr' = [wr EXCEPT ![w] = WriteReturn(w, p)]
    /\ lines' = Append(lines, 0)
    /\ UNCHANGED <<unsentLines, maxUnsentLines, enc, err, encoderLock, units,
                   quit, loopDone, written, accepted, writeBudget, conns,
                   localEntries, order, tickAt, reachable, mayClose, atClose, lateLines,
                   unitsAtClose, panicked, logger, lastEntry, exited>>

\* Write, lines 51-53: a nil or empty buffer returns (0, nil) at once
WriteEmpty(w, p) ==
    /\ wr[w].pc \in {"idle", "returned"}
    /\ p \in {"nil", "empty"}
    /\ wr' = [wr EXCEPT ![w] = WriteReturn(w, p)]
    /\ UNCHANGED <<lines, unsentLines, maxUnsentLines, enc, err, encoderLock, units,
                   quit, loopDone, written, accepted, writeBudget, conns,
                   localEntries, order, tickAt, reachable, mayClose, atClose, lateLines,
                   unitsAtClose, panicked, logger, lastEntry, exited>>

\* Write, line 54: the send on the unbuffered channel settings.entry blocks
\* until the loop receives (late: the call was made after Close)
WriteSend(w) ==
    /\ wr[w].pc \in {"idle", "returned"}
    /\ written < writeBudget
    /\ written' = written + 1
    /\ wr' = [wr EXCEPT ![w] = [pc |-> "blocked", p |-> "line", n |-> 0, err |-> "nil", late |-> quit]]
    /\ UNCHANGED <<lines, unsentLines, maxUnsentLines, enc, err, encoderLock, units,
                   quit, loopDone, accepted, writeBudget, conns,
                   localEntries, order, tickAt, reachable, mayClose, atClose, lateLines,
                   unitsAtClose, panicked, logger, lastEntry, exited>>

\* Close, lines 45-48: close(t.quit); the close of a closed channel panics
Close ==
    /\ mayClose
    /\ IF quit
          THEN /\ panicked' = TRUE
               /\ UNCHANGED <<quit, atClose, unitsAtClose>>
          ELSE /\ quit' = TRUE
               /\ atClose' = (Range(lines) \cup Range(unsentLines)) \ Wired
               /\ unitsAtClose' = Len(units)
               /\ UNCHANGED panicked
    /\ UNCHANGED <<lines, unsentLines, maxUnsentLines, enc, err, encoderLock, units,
                   loopDone, wr, written, accepted, writeBudget, conns,
                   localEntries, order, tickAt, reachable, mayClose, lateLines,
                   logger, lastEntry, exited>>

\* ------------------------------------------------------------------ ingestion loop
\* mutant: the loop sends the lines itself, as it did before the
\* goroutine of line 105, and is busy while a send is under way
LoopReadyWhenIdle == ~loopDone /\ encoderLock = 0

\* lines 98-99: the loop is at its select whenever it has not returned; each
\* case runs to the end without blocking
LoopReady == ~loopDone

\* the goroutine of line 105 as spawned: it holds its copy of the lines and
\* has not yet locked encoderLock; tries records the outcome of each call of
\* send it has made
NewUnit(snapshot) ==
    [pc |-> "lock", linesToSend |-> snapshot, phase |-> "fresh", l |-> <<>>, tries |-> <<>>]

\* lines 102-104: the copy handed to the goroutine
Snapshot(buf) == buf

\* mutant: the pending buffer is not reset after the copy
ResetLinesKeep(buf) == buf

\* line 104: lines = make([]string, 0, len(lines))
ResetLines(buf) == <<>>

\* mutant: a tick spawns no goroutine while another one waits for the lock;
\* the pending lines go into a later snapshot
LoopTickCoalesced ==
    /\ LoopReady
    /\ Len(lines) \in tickAt
    /\ IF Len(lines) > 0 /\ \A g \in 1..Len(units) : units[g].pc # "lock"
         THEN /\ units' = Append(units, NewUnit(Snapshot(lines)))
              /\ lines' = ResetLines(lines)
         ELSE UNCHANGED <<units, lines>>
    /\ UNCHANGED <<unsentLines, maxUnsentLines, enc, err, encoderLock, quit, loopDone,
                   wr, written, accepted, writeBudget, conns, localEntries, order, tickAt,
                   reachable, mayClose, atClose, lateLines, unitsAtClose, panicked, logger, lastEntry, exited>>

\* case <-timer, lines 100-145: the loop receives a tick of time.Tick (the
\* ticker runs for ever, so there is always a next tick to receive)
LoopTick ==
    /\ LoopReady
    /\ Len(lines) \in tickAt
    /\ IF Len(lines) > 0
         THEN /\ units' = Append(units, NewUnit(Snapshot(lines)))
              /\ lines' = ResetLines(lines)
         ELSE UNCHANGED <<units, lines>>
    /\ UNCHANGED <<unsentLines, maxUnsentLines, enc, err, encoderLock, quit, loopDone,
                   wr, written, accepted, writeBudget, conns, localEntries, order, tickAt,
                   reachable, mayClose, atClose, lateLines, unitsAtClose, panicked, logger, lastEntry, exited>>

\* mutant: the received line is put in front of the pending ones
AppendLineInFront(buf, s) == <<s>> \o buf

\* line 147: lines = append(lines, string(s))
AppendLine(buf, s) == Append(buf, s)

\* case s := <-settings.entry, lines 146-147, and the return of the Write
\* that sent s, line 55
LoopEntry(w) ==
    /\ LoopReady
    /\ wr[w].pc = "blocked"
    /\ accepted' = accepted + 1
    /\ lines' = AppendLine(lines, accepted + 1)
    /\ wr' = [wr EXCEPT ![w] = WriteReturn(w, wr[w].p)]
    /\ lateLines' = IF wr[w].late THEN lateLines \cup {accepted + 1} ELSE lateLines
    /\ UNCHANGED <<unsentLines, maxUnsentLines, enc, err, encoderLock, units, quit,
                   loopDone, written, writeBudget, conns, localEntries, order, tickAt,
                   reachable, mayClose, atClose, unitsAtClose, panicked, logger, lastEntry, exited>>

\* case <-settings.quit, lines 148-149
LoopQuit ==
    /\ LoopReady
    /\ quit
    /\ loopDone' = TRUE
    /\ UNCHANGED <<lines, unsentLines, maxUnsentLines, enc, err, encoderLock, units,
                   quit, wr, written, accepted, writeBudget, conns,
                   localEntries, order, tickAt, reachable, mayClose, atClose, lateLines,
                   unitsAtClose, panicked, logger, lastEntry, exited>>

\* ------------------------------------------------------------------ flush goroutine
FlushVarsUnchanged ==
    UNCHANGED <<lines, maxUnsentLines, quit, loopDone, wr, written, accepted,
                writeBudget, tickAt, reachable, mayClose, atClose, lateLines, unitsAtClose, panicked, logger, lastEntry, exited>>

\* mutant: the goroutine does not wait for the lock
LockNotAwaited == TRUE

\* mutant: the lock is held during connect and Encode only, and is free
\* while its holder updates unsentLines
LockFreeAfterSend ==
    encoderLock = 0 \/ \A h \in 1..Len(units) : units[h].pc \notin {"connect", "encode"}

\* mutant: a goroutine that waits for the lock when Close is called is given up
LockUntilClose == encoderLock = 0 /\ ~quit

\* encoderLock.Lock() returns to the caller only when no goroutine holds the lock
LockAvailable == encoderLock = 0

\* line 110, the entry of send: connect when there is no encoder, else encode
SendEntry == IF enc = 0 THEN "connect" ELSE "encode"

\* mutant: the goroutine sends the old lines together with its snapshot
FirstLinesWithBacklog(u) == unsentLines \o u.linesToSend

\* line 131: the argument of the first call of send
FirstLines(u) == u.linesToSend

\* the record of a call of send that returned: what it was given, and
\* whether it returned nil
Try(u, ok) == [phase |-> u.phase, l |-> u.l, ok |-> ok]

\* lines 107-108 and the call send(linesToSend) of line 131 up to line 110
Lock(g) ==
    /\ units[g].pc = "lock"
    /\ LockAvailable
    /\ encoderLock' = g
    /\ units' = [units EXCEPT ![g] = [@ EXCEPT !.pc = SendEntry, !.l = FirstLines(units[g])]]
    /\ order' = Append(order, g)
    /\ UNCHANGED <<unsentLines, enc, err, conns, localEntries>>
    /\ FlushVarsUnchanged

\* what connect can do, in the order of its steps: LookupHost fails, Dial
\* fails, MakeAuthToken fails, Encode(protocol) fails, Encode(token) fails,
\* or all of them succeed
ConnectOutcomes == {"dns", "dial", "token", "version", "authtoken", "ok"}

Record(kind, ls) == [kind |-> kind, lines |-> ls]

\* mutant: connect writes the token before the protocol version
ConnectSocketTokenFirst(outcome) ==
    CASE outcome \in {"dns", "dial"} -> <<>>
      [] outcome \in {"token", "version"} -> <<[open |-> FALSE, wire |-> <<>>]>>
      [] outcome = "authtoken" ->
            <<[open |-> FALSE, wire |-> <<Record("token", <<>>)>>]>>
      [] outcome = "ok" ->
            <<[open |-> TRUE,
               wire |-> <<Record("token", <<>>), Record("version", <<>>)>>]>>

\* mutant: connect returns its errors without conn.Close()
ConnectSocketLeftOpen(outcome) ==
    CASE outcome \in {"dns", "dial"} -> <<>>
      [] outcome \in {"token", "version"} -> <<[open |-> TRUE, wire |-> <<>>]>>
      [] outcome = "authtoken" ->
            <<[open |-> TRUE, wire |-> <<Record("version", <<>>)>>]>>
      [] outcome = "ok" ->
            <<[open |-> TRUE,
               wire |-> <<Record("version", <<>>), Record("token", <<>>)>>]>>

\* the socket connect leaves behind, lines 66-87: none before Dial succeeded,
\* a closed one after a failure (conn.Close()), an open one carrying the
\* protocol version and the token on success
ConnectSocket(outcome) ==
    CASE outcome \in {"dns", "dial"} -> <<>>
      [] outcome \in {"token", "version"} -> <<[open |-> FALSE, wire |-> <<>>]>>
      [] outcome = "authtoken" ->
            <<[open |-> FALSE, wire |-> <<Record("version", <<>>)>>]>>
      [] outcome = "ok" ->
            <<[open |-> TRUE,
               wire |-> <<Record("version", <<>>), Record("token", <<>>)>>]>>

\* the error connect returns, lines 62-87
ConnectError(outcome) == IF outcome = "ok" THEN "nil" ELSE "error"

\* the encoder connect returns, lines 62-87: nil with every error, else an
\* encoder on the new socket
ConnectEncoder(outcome) == IF outcome = "ok" THEN Len(conns) + 1 ELSE 0

IsOpen(sock) == sock.open

\* lines 111-116: enc, _, err = connect(...); on an error report it and
\* return it from send
Connect(g, outcome) ==
    /\ units[g].pc = "connect"
    /\ reachable => outcome = "ok"
    /\ conns' = conns \o SelectSeq(ConnectSocket(outcome), IsOpen)
    /\ enc' = ConnectEncoder(outcome)
    /\ err' = ConnectError(outcome)
    /\ IF ConnectError(outcome) = "nil"
         THEN /\ units' = [units EXCEPT ![g].pc = "encode"]
              /\ UNCHANGED localEntries
         ELSE /\ units' = [units EXCEPT ![g] =
                     [@ EXCEPT !.pc = "sent", !.tries = Append(units[g].tries, Try(units[g], FALSE))]]
              /\ localEntries' = Append(localEntries, [sev |-> "ERROR", n |-> 0])
    /\ UNCHANGED <<unsentLines, encoderLock, order>>
    /\ FlushVarsUnchanged

\* mutant: the encoder is kept after a failed Encode
EncoderKeptAfterFailure == enc

\* line 125: enc = nil after a failed Encode
EncoderAfterFailure == 0

\* lines 117-129: encode the LogTransfer; a failure drops the encoder
Encode(g, ok) ==
    /\ units[g].pc = "encode"
    /\ reachable => ok
    /\ IF ok
         THEN /\ conns' = [conns EXCEPT ![enc].wire = Append(@, Record("batch", units[g].l))]
              /\ err' = "nil"
              /\ localEntries' =
                     Append(localEntries, [sev |-> "DEBUG", n |-> Len(units[g].l)])
              /\ UNCHANGED enc
         ELSE /\ err' = "error"
              /\ localEntries' = Append(localEntries, [sev |-> "ERROR", n |-> 0])
              /\ enc' = EncoderAfterFailure
              /\ UNCHANGED conns
    /\ units' = [units EXCEPT ![g] =
           [@ EXCEPT !.pc = "sent", !.tries = Append(units[g].tries, Try(units[g], ok))]]
    /\ UNCHANGED <<unsentLines, encoderLock, order>>
    /\ FlushVarsUnchanged

\* mutant: the purge of lines 134-137 left out
AppendUnsentNoPurge(u, l) == u \o l

\* mutant: the purge keeps the oldest lines
AppendUnsentKeepOldest(u, l) ==
    LET all == u \o l
    IN  IF Len(all) > maxUnsentLines THEN SubSeq(all, 1, maxUnsentLines) ELSE all

\* mutant: the lines of a failed send replace the older ones
AppendUnsentReplace(u, l) == l

\* lines 133-137: unsentLines after the lines l of a failed send were appended
AppendUnsent(u, l) ==
    LET all == u \o l
    IN  IF Len(all) > maxUnsentLines THEN LastN(all, maxUnsentLines) ELSE all

\* mutant: the warning carries the length of unsentLines, not the excess
PurgeWarningsLength(u, l) ==
    IF Len(u) + Len(l) > maxUnsentLines
      THEN <<[sev |-> "WARNING", n |-> Len(u) + Len(l)]>>
      ELSE <<>>

\* line 135: the purge warnings reported when l is appended to u
PurgeWarnings(u, l) ==
    IF Len(u) + Len(l) > maxUnsentLines
      THEN <<[sev |-> "WARNING", n |-> Len(u) + Len(l) - maxUnsentLines]>>
      ELSE <<>>

\* mutant: the lines of failed sends are never sent again
ResendNever == FALSE

\* line 138: the resend is made when the fresh send succeeded and lines are waiting
ResendWanted == Len(unsentLines) > 0

\* the deferred encoderLock.Unlock() of line 108, run as the goroutine returns
Unlocked == 0

\* lines 131-139, after send(linesToSend) returned: a failed send appends
\* the lines and the goroutine returns; a successful one goes on to
\* send(unsentLines) when lines are waiting, else the goroutine returns
AfterFresh(g) ==
    /\ units[g].pc = "sent"
    /\ units[g].phase = "fresh"
    /\ IF err # "nil"
         THEN /\ unsentLines' = AppendUnsent(unsentLines, units[g].linesToSend)
              /\ localEntries' = localEntries \o PurgeWarnings(unsentLines, units[g].linesToSend)
              /\ units' = [units EXCEPT ![g].pc = "done"]
              /\ encoderLock' = Unlocked
         ELSE IF ResendWanted
                THEN /\ units' = [units EXCEPT ![g] =
                            [@ EXCEPT !.pc = SendEntry, !.phase = "unsent", !.l = unsentLines]]
                     /\ UNCHANGED <<unsentLines, localEntries, encoderLock>>
                ELSE /\ units' = [units EXCEPT ![g].pc = "done"]
                     /\ encoderLock' = Unlocked
                     /\ UNCHANGED <<unsentLines, localEntries>>
    /\ UNCHANGED <<enc, err, conns, order>>
    /\ FlushVarsUnchanged

\* mutant: unsentLines is emptied whatever send(unsentLines) returned
AfterResendAlwaysEmpty(u, e) == <<>>

\* mutant: unsentLines is kept after a successful send(unsentLines)
AfterResendKept(u, e) == u

\* lines 140-142: unsentLines after send(unsentLines) returned e
AfterResendUnsent(u, e) == IF e = "nil" THEN <<>> ELSE u

\* lines 139-143, after send(unsentLines) returned, and the return of the goroutine
AfterResend(g) ==
    /\ units[g].pc = "sent"
    /\ units[g].phase = "unsent"
    /\ unsentLines' = AfterResendUnsent(unsentLines, err)
    /\ units' = [units EXCEPT ![g].pc = "done"]
    /\ encoderLock' = Unlocked
    /\ UNCHANGED <<enc, err, conns, localEntries, order>>
    /\ FlushVarsUnchanged

\* ------------------------------------------------------------------ environment
\* the collector becomes reachable for good: from now on every step of
\* connect and every Encode succeeds
Recover ==
    /\ ~reachable
    /\ reachable' = TRUE
    /\ UNCHANGED <<lines, unsentLines, maxUnsentLines, enc, err, encoderLock, units,
                   quit, loopDone, wr, written, accepted, writeBudget, conns,
                   localEntries, order, tickAt, mayClose, atClose, lateLines, unitsAtClose, panicked, logger, lastEntry, exited>>

\* ------------------------------------------------------------------ logger operations
\* the variables of the shipper, which no call on the Logger changes
shipperVars == <<lines, unsentLines, maxUnsentLines, enc, err, encoderLock, units,
                 quit, loopDone, wr, written, accepted, writeBudget, conns,
                 localEntries, order, tickAt, reachable, mayClose, atClose, lateLines,
                 unitsAtClose, panicked>>

\* the file names given to SetLogFile: the empty one and a file
FileNames == {"", "f"}

\* what the OpenFile calls of SetLogFile can do for a file name: both files
\* open, the text file does not open, or only the JSON file does not open
OpenOutcomes == {"ok", "textfail", "jsonfail"}

\* line 84: the name of the JSON file, fileName.json
JSONFileName(fileName) == IF fileName = "f" THEN "f.json" ELSE "/dev/null"

\* lines 78-90: the error SetLogFile ends with
SetLogFileError(fileName, outcome) == fileName # "" /\ outcome = "textfail"

\* lines 79, 82: the text writer SetLogFile opened
OpenedText(fileName) == IF fileName = "" THEN "stdout" ELSE fileName

\* lines 80, 84-88: the JSON writer SetLogFile opened; the text writer when
\* fileName.json does not open
OpenedJSON(fileName, outcome) ==
    IF fileName = "" THEN "/dev/null"
    ELSE IF outcome = "jsonfail" THEN OpenedText(fileName) ELSE JSONFileName(fileName)

\* SetLogFile, lines 72-102: on success the two writers are replaced; no
\* other field of the Logger is assigned
SetLogFile(fileName, outcome) ==
    /\ ~exited
    /\ logger' = IF SetLogFileError(fileName, outcome)
                   THEN logger
                   ELSE [logger EXCEPT !.textWriter = OpenedText(fileName),
                                       !.jsonWriter = OpenedJSON(fileName, outcome)]
    /\ UNCHANGED <<lastEntry, exited>>
    /\ UNCHANGED shipperVars

\* WriteJSONToChannel, lines 106-108; channel 0 is nil
WriteJSONToChannel(c) ==
    /\ ~exited
    /\ logger' = [logger EXCEPT !.jsonChannel = c]
    /\ UNCHANGED <<lastEntry, exited>>
    /\ UNCHANGED shipperVars

\* mutant: the names of all the levels of the entry, enabled or not
LevelStringOfEntry(l, logLevel) ==
    (IF Debug \in l THEN <<"DEBUG">> ELSE <<>>)
    \o (IF Info \in l THEN <<"INFO">> ELSE <<>>)
    \o (IF Warning \in l THEN <<"WARNING">> ELSE <<>>)
    \o (IF Error \in l THEN <<"ERROR">> ELSE <<>>)
    \o (IF Critical \in l THEN <<"CRITICAL">> ELSE <<>>)
    \o (IF Fatal \in l THEN <<"FATAL">> ELSE <<>>)
    \o (IF Metrics \in l THEN <<"METRICS">> ELSE <<>>)

\* Level._String, lines 204-228: the names of the levels set in both l and
\* logLevel, in the order of the tests, to be joined by "|"
LevelString(l, logLevel) ==
    (IF Debug \in l /\ Debug \in logLevel THEN <<"DEBUG">> ELSE <<>>)
    \o (IF Info \in l /\ Info \in logLevel THEN <<"INFO">> ELSE <<>>)
    \o (IF Warning \in l /\ Warning \in logLevel THEN <<"WARNING">> ELSE <<>>)
    \o (IF Error \in l /\ Error \in logLevel THEN <<"ERROR">> ELSE <<>>)
    \o (IF Critical \in l /\ Critical \in logLevel THEN <<"CRITICAL">> ELSE <<>>)
    \o (IF Fatal \in l /\ Fatal \in logLevel THEN <<"FATAL">> ELSE <<>>)
    \o (IF Metrics \in l /\ Metrics \in logLevel THEN <<"METRICS">> ELSE <<>>)

\* line 258 and line 277: the regular expression ERROR|FATAL|CRITICAL
\* matches the header, whose only letters besides the severity are those of
\* the timestamp
HeaderMatches(severity) ==
    \E i \in 1..Len(severity) : severity[i] \in {"ERROR", "FATAL", "CRITICAL"}

\* lines 282-286: where the JSON entry goes
JSONDestination ==
    IF logger.jsonChannel # 0
      THEN <<"channel", logger.jsonChannel>>
      ELSE <<"file", logger.jsonWriter>>

\* writeEntry, lines 260-289, the writes succeeding: what it writes for a
\* call with the levels level, hasValues telling whether values is not nil
writeEntry(level, hasValues) ==
    IF level \cap logger.logLevel = {}
      THEN [call |-> <<level, hasValues>>, text |-> <<>>, json |-> <<>>]
      ELSE LET severity == LevelString(level, logger.logLevel)
           IN  [call |-> <<level, hasValues>>,
                text |-> <<[to |-> <<"file", logger.textWriter>>, severity |-> severity]>>,
                json |-> IF hasValues \/ HeaderMatches(severity)
                           THEN <<[to |-> JSONDestination, severity |-> severity]>>
                           ELSE <<>>]

\* line 233: Write exits when the Fatal bit is set in level
WriteExits(level) == Fatal \in level

\* Logger.Write, lines 231-237
LoggerWrite(level, hasValues) ==
    /\ ~exited
    /\ lastEntry' = writeEntry(level, hasValues)
    /\ exited' = WriteExits(level)
    /\ UNCHANGED logger
    /\ UNCHANGED shipperVars

\* Logger.Fatal, lines 195-202
LoggerFatal(hasValues) ==
    /\ ~exited
    /\ IF Fatal \notin logger.logLevel
         THEN /\ lastEntry' = [call |-> <<{Fatal}, hasValues>>, text |-> <<>>, json |-> <<>>]
              /\ exited' = FALSE
         ELSE /\ lastEntry' = writeEntry({Fatal}, hasValues)
              /\ exited' = TRUE
    /\ UNCHANGED logger
    /\ UNCHANGED shipperVars

\* Logger.Error, Warning, Info, Debug, Metrics and Critical, lines 145-192
LoggerLevel(lv, hasValues) ==
    /\ ~exited
    /\ lv \in NamedLevels \ {Fatal}
    /\ lastEntry' = IF lv \notin logger.logLevel
                      THEN [call |-> <<{lv}, hasValues>>, text |-> <<>>, json |-> <<>>]
                      ELSE writeEntry({lv}, hasValues)
    /\ UNCHANGED <<logger, exited>>
    /\ UNCHANGED shipperVars

\* ------------------------------------------------------------------ specification
Flush(g) ==
    \/ Lock(g)
    \/ \E outcome \in ConnectOutcomes : Connect(g, outcome)
    \/ \E ok \in BOOLEAN : Encode(g, ok)
    \/ AfterFresh(g)
    \/ AfterResend(g)

Next ==
    \/ \E w \in Producers, p \in {"nil", "empty"} : WriteEmpty(w, p)
    \/ \E w \in Producers : WriteSend(w)
    \/ Close
    \/ LoopTick
    \/ \E w \in Producers : LoopEntry(w)
    \/ LoopQuit
    \/ \E g \in 1..Len(units) : Flush(g)
    \/ Recover

Spec == Init /\ [][Next]_vars

\* The liveness properties are checked in the last environment: capacity
\* 2, two producers writing 2 lines, a tick can arrive at any time, Close
\* can be called at any time.
LiveInit == InitWith(2, 2, 2, 0..2, TRUE) /\ LoggerIdle

\* The select of the loop picks among its ready cases at random, so a case
\* that stays ready is taken; the ticker never stops.
LoopFair ==
    /\ WF_vars(LoopQuit)
    /\ WF_vars(LoopTick)
    /\ \A w \in 1..2 : WF_vars(w \in Producers /\ LoopEntry(w))

\* A flush goroutine that waits for encoderLock gets it (sync.Mutex hands
\* the lock to a starving waiter) and runs on once it holds it; with the
\* collector unreachable connect and Encode may never return, so they are
\* fair only once it is reachable.  Only the goroutine that holds the lock
\* can take one of the steps after Lock.
FlushFair ==
    /\ \A g \in 1..2 : SF_vars(g <= Len(units) /\ Lock(g))
    /\ WF_vars(\E g \in 1..Len(units) :
                   \/ reachable /\ Connect(g, "ok")
                   \/ reachable /\ Encode(g, TRUE)
                   \/ AfterFresh(g)
                   \/ AfterResend(g))

\* the loop is scheduled fairly; nothing is assumed of the flush goroutines
LoopLiveSpec == LiveInit /\ [][Next]_vars /\ LoopFair

\* the loop and the flush goroutines are scheduled fairly
LiveSpec == LiveInit /\ [][Next]_vars /\ LoopFair /\ FlushFair

\* ------------------------------------------------------------------ logger specifications
\* a shipper to which nothing is written, while the calls on the Logger are examined
ShipperIdle == InitWith(2, 0, 1, {0}, FALSE)

\* the level arguments of the logging calls
EntryLevels == {E \in SUBSET All : Cardinality(E) <= MaxEntryLevels}

\* the level sets a Logger is given: any set of named levels, or All
LoggerLevels == (SUBSET NamedLevels) \cup {All}

\* the logging calls on a Logger with any level set
LevelInit ==
    /\ ShipperIdle
    /\ \E S \in LoggerLevels : logger = NewLogger(S)
    /\ lastEntry = NoEntry
    /\ exited = FALSE

LevelNext ==
    \/ \E E \in EntryLevels, hasValues \in BOOLEAN : LoggerWrite(E, hasValues)
    \/ \E hasValues \in BOOLEAN : LoggerFatal(hasValues)
    \/ \E lv \in NamedLevels, hasValues \in BOOLEAN : LoggerLevel(lv, hasValues)

LevelSpec == LevelInit /\ [][LevelNext]_vars

\* the calls that set the destinations, and the logging calls, on the Logger
\* New("") returns, in any order
LoggerInit == ShipperIdle /\ LoggerIdle

LoggerNext ==
    \/ \E fileName \in FileNames, outcome \in OpenOutcomes : SetLogFile(fileName, outcome)
    \/ \E c \in {0, 1} : WriteJSONToChannel(c)
    \/ \E E \in EntryLevels, hasValues \in BOOLEAN : LoggerWrite(E, hasValues)
    \/ \E hasValues \in BOOLEAN : LoggerFatal(hasValues)
    \/ \E lv \in NamedLevels, hasValues \in BOOLEAN : LoggerLevel(lv, hasValues)

LoggerSpec == LoggerInit /\ [][LoggerNext]_vars

\* ------------------------------------------------------------------ properties
Min(a, b) == IF a < b THEN a ELSE b

RECURSIVE Concat(_)
Concat(ss) == IF ss = <<>> THEN <<>> ELSE Head(ss) \o Concat(Tail(ss))

UnitIds == 1..Len(units)

\* the flush goroutines between Lock and the return, that is, inside send
\* or in the bookkeeping of unsentLines
InCritical == {g \in UnitIds : units[g].pc \in {"connect", "encode", "sent"}}

Warnings == SelectSeq(localEntries, LAMBDA e : e.sev = "WARNING")

FailedFresh(g) ==
    /\ units[g].pc = "done"
    /\ Len(units[g].tries) = 1
    /\ ~units[g].tries[1].ok

\* C1: unsentLines never holds more than maxUnsentLines lines once a flush
\* goroutine has finished its bookkeeping (and never in between)
C1_UnsentWithinCapacity == Len(unsentLines) <= maxUnsentLines

\* the capacity is reached after an eviction, one of the failed batches
\* being larger than the capacity on its own
C1_Witness ==
    /\ Len(unsentLines) = maxUnsentLines
    /\ Len(Warnings) > 0
    /\ \E g \in UnitIds : FailedFresh(g) /\ Len(units[g].linesToSend) > maxUnsentLines

\* C2: at most one flush goroutine is inside connect, inside Encode or at the
\* bookkeeping of unsentLines, and it is the one that holds encoderLock
C2_MutualExclusion ==
    /\ Cardinality(InCritical) <= 1
    /\ \A g \in InCritical : encoderLock = g
    /\ encoderLock # 0 => encoderLock \in InCritical

\* one goroutine is inside connect or Encode while two others wait for the lock
C2_Witness ==
    \E g, h, k \in UnitIds :
        /\ h # k
        /\ units[g].pc \in {"connect", "encode"}
        /\ units[h].pc = "lock"
        /\ units[k].pc = "lock"

\* C3: the snapshots handed to the flush goroutines, in the order of the
\* ticks, followed by the pending buffer are exactly the accepted lines in
\* the order of acceptance; a snapshot is never empty and never changes; the
\* step that takes a snapshot takes the whole pending buffer and leaves it empty
C3_SnapshotState ==
    /\ Concat([g \in UnitIds |-> units[g].linesToSend]) \o lines = [i \in 1..accepted |-> i]
    /\ \A g \in UnitIds : units[g].linesToSend # <<>>

C3_SnapshotStep ==
    /\ \A g \in UnitIds : g <= Len(units') /\ units'[g].linesToSend = units[g].linesToSend
    /\ Len(units') > Len(units) =>
          /\ lines # <<>>
          /\ units' = Append(units, NewUnit(lines))
          /\ lines' = <<>>
    /\ lines' # lines => \/ Len(units') > Len(units)
                         \/ lines' = Append(lines, accepted + 1) /\ accepted' = accepted + 1

\* C3: every snapshot is exactly the lines accepted since the previous one,
\* in acceptance order, and taking it empties the pending buffer (the state
\* part and the step part above, together)
C3_SnapshotExact == []C3_SnapshotState /\ [][C3_SnapshotStep]_vars

\* two snapshots were taken, the second of several lines, and a line
\* accepted after it is pending
C3_Witness ==
    /\ Len(units) >= 2
    /\ Len(units[2].linesToSend) >= 2
    /\ lines # <<>>

Blocked(w) == w \in Producers /\ wr[w].pc = "blocked"

ReturnedLine(w) ==
    /\ w \in Producers
    /\ wr[w].pc = "returned"
    /\ wr[w].n = PLen(w, "line")
    /\ wr[w].err = "nil"

\* C4: while the shipper is not closed, a Write of a line that waits on
\* settings.entry is accepted and returns (len(p), nil), and the loop can
\* take the next tick and the next line whoever holds encoderLock and for
\* however long (no fairness is assumed of a goroutine inside connect or
\* Encode with the collector unreachable)
C4_LoopNeverWaits ==
    /\ \A w \in 1..2 : Blocked(w) ~> (ReturnedLine(w) \/ quit)
    /\ [](~loopDone /\ Len(lines) \in tickAt => ENABLED LoopTick)
    /\ [](\A w \in 1..2 : ~loopDone /\ Blocked(w) => ENABLED LoopEntry(w))

\* a goroutine is inside connect holding the lock, and a line accepted
\* after its snapshot was taken is pending, its Write returned
C4_Witness ==
    \E g \in UnitIds, w \in Producers :
        /\ units[g].pc = "connect"
        /\ encoderLock = g
        /\ ReturnedLine(w)
        /\ accepted \in Range(lines)
        /\ ~quit

\* C5: every Write call returns, with a nil error, Close called or not
C5_WriteAlwaysReturns ==
    \A w \in 1..2 : Blocked(w) ~> (w \in Producers /\ wr[w].pc = "returned" /\ wr[w].err = "nil")

\* the step in which goroutine g ends after its first send failed
FailedFreshEnds(g) ==
    /\ units[g].pc = "sent"
    /\ units[g].phase = "fresh"
    /\ ~units[g].tries[1].ok
    /\ units'[g].pc = "done"

\* the last Min(Len(s), n) elements of s, in order
Newest(s, n) == [i \in 1..Min(Len(s), n) |-> s[Len(s) - Min(Len(s), n) + i]]

IsSuffix(t, s) == Len(t) <= Len(s) /\ \A i \in 1..Len(t) : s[Len(s) - Len(t) + i] = t[i]

\* C6: the flush goroutine whose send of its snapshot L failed leaves
\* unsentLines equal to the former unsentLines followed by L, cut down to its
\* last maxUnsentLines entries; all of L is kept when there is room for it
C6_FailedLinesKept ==
    [][\A g \in UnitIds :
         FailedFreshEnds(g) =>
            /\ unsentLines' = Newest(unsentLines \o units[g].linesToSend, maxUnsentLines)
            /\ Len(unsentLines) + Len(units[g].linesToSend) <= maxUnsentLines =>
                  /\ IsSuffix(units[g].linesToSend, unsentLines')
                  /\ Len(unsentLines') = Len(unsentLines) + Len(units[g].linesToSend)]_vars

\* a failed snapshot was appended behind older failed lines, all kept, and
\* another one was cut down to the capacity
C6_Witness ==
    /\ \E g \in UnitIds :
          /\ FailedFresh(g)
          /\ IsSuffix(units[g].linesToSend, unsentLines)
          /\ Len(unsentLines) > Len(units[g].linesToSend)
    /\ Len(Warnings) > 0

\* C7: after a successful send of the snapshot with unsentLines not empty
\* the goroutine sends all of unsentLines as one batch; when that send
\* succeeds unsentLines is empty afterwards, when it fails unsentLines is
\* what it was (nothing appended, nothing purged) and the encoder is nil
C7_Resend ==
    [][\A g \in UnitIds :
         /\ (units[g].pc = "sent" /\ units[g].phase = "fresh" /\ units[g].tries[1].ok
                /\ unsentLines # <<>> /\ units'[g] # units[g]) =>
               /\ units'[g].phase = "unsent"
               /\ units'[g].l = unsentLines
               /\ units'[g].pc = "encode"
               /\ unsentLines' = unsentLines
         /\ (units[g].phase = "unsent" /\ Len(units'[g].tries) > Len(units[g].tries)) =>
               LET try == units'[g].tries[2]
               IN  /\ Len(units'[g].tries) = 2
                   /\ try.l = unsentLines
                   /\ unsentLines' = unsentLines
                   /\ IF try.ok
                        THEN /\ enc' = enc
                             /\ conns' = [conns EXCEPT ![enc].wire =
                                             Append(@, Record("batch", unsentLines))]
                        ELSE enc' = 0 /\ conns' = conns
         /\ (units[g].phase = "unsent" /\ units[g].pc = "sent" /\ units'[g] # units[g]) =>
               /\ units'[g].pc = "done"
               /\ localEntries' = localEntries
               /\ IF units[g].tries[2].ok
                    THEN unsentLines' = <<>>
                    ELSE /\ unsentLines' = units[g].tries[2].l
                         /\ unsentLines' = unsentLines
                         /\ enc' = 0]_vars

\* one goroutine has resent unsentLines and failed, the lines are still
\* there and the encoder is nil; another one has resent them with success
C7_Witness ==
    \E g, h \in UnitIds :
        /\ units[g].pc = "done" /\ Len(units[g].tries) = 2 /\ ~units[g].tries[2].ok
        /\ units[h].pc = "done" /\ Len(units[h].tries) = 2 /\ units[h].tries[2].ok
        /\ g < h
        /\ unsentLines = <<>>

\* the purge warning carrying n
Purged(n) == [sev |-> "WARNING", n |-> n]

\* the snapshots of the goroutines in the order in which they ran
RunOrder == Concat([i \in 1..Len(order) |-> units[order[i]].linesToSend])

\* capacity 5 and three batches of 3 lines, all failed and nothing else sent
ThreeFailedBatches ==
    /\ maxUnsentLines = 5
    /\ Len(units) = 3
    /\ \A g \in UnitIds : FailedFresh(g) /\ Len(units[g].linesToSend) = 3

\* C8: when the lines of a failed batch make unsentLines n > maxUnsentLines
\* long, the n - maxUnsentLines oldest lines go, the others keep their order
\* and one purge warning carrying n - maxUnsentLines is reported; with n
\* within the capacity nothing goes and no warning is reported, and no other
\* step reports a purge.  With capacity 5, three failed batches of 3 lines
\* leave the 5 newest failed lines and the purge warnings for 1 and 3 lines.
C8_PurgeStep ==
    /\ \A g \in UnitIds :
         FailedFreshEnds(g) =>
            LET all == unsentLines \o units[g].linesToSend
                n == Len(all)
            IN  IF n > maxUnsentLines
                  THEN /\ unsentLines' = SubSeq(all, n - maxUnsentLines + 1, n)
                       /\ localEntries' = Append(localEntries, Purged(n - maxUnsentLines))
                  ELSE /\ unsentLines' = all
                       /\ localEntries' = localEntries
    /\ (\A g \in UnitIds : ~FailedFreshEnds(g)) =>
          SelectSeq(localEntries', LAMBDA e : e.sev = "WARNING") = Warnings

C8_PurgeScenario ==
    ThreeFailedBatches =>
        /\ unsentLines = SubSeq(RunOrder, 5, 9)
        /\ Warnings = <<Purged(1), Purged(3)>>

\* C8: an overflow evicts exactly the oldest n - maxUnsentLines lines with one
\* purge warning carrying that count, and the capacity-5 scenario ends as
\* stated (the step part and the scenario part above, together)
C8_Purge == [][C8_PurgeStep]_vars /\ []C8_PurgeScenario

\* the three batches of the scenario have failed, the second one before the first
C8_Witness == ThreeFailedBatches /\ order[1] = 2

\* a 3-line batch failed, then the goroutine of a 2-line batch ran and both
\* of its sends succeeded, and no other goroutine has run
FailedThenSent ==
    /\ Len(order) = 2
    /\ order = <<1, 2>>
    /\ FailedFresh(1)
    /\ units[1].linesToSend = <<1, 2, 3>>
    /\ units[2].linesToSend = <<4, 5>>
    /\ units[2].pc = "done"
    /\ \A i \in 1..Len(units[2].tries) : units[2].tries[i].ok

\* C9: the first send of a flush goroutine is that of its snapshot; it sends
\* unsentLines only after that send succeeded and once at most, so it makes
\* at most two sends and sends again nothing that failed.  After a failed
\* 3-line batch, the goroutine of the next interval with 2 lines sends the 2
\* new lines, then the 3 old ones, and leaves unsentLines empty.
C9_SendOrder ==
    /\ \A g \in UnitIds :
         LET t == units[g].tries
         IN  /\ Len(t) <= 2
             /\ units[g].pc = "done" => Len(t) >= 1
             /\ Len(t) >= 1 => t[1].phase = "fresh" /\ t[1].l = units[g].linesToSend
             /\ Len(t) = 2 => t[1].ok /\ t[2].phase = "unsent"
             /\ units[g].pc \in {"connect", "encode"} =>
                   /\ Len(t) = (IF units[g].phase = "fresh" THEN 0 ELSE 1)
                   /\ units[g].phase = "fresh" => units[g].l = units[g].linesToSend
    /\ FailedThenSent =>
         /\ Len(units[2].tries) = 2
         /\ units[2].tries[1].l = <<4, 5>>
         /\ units[2].tries[2].l = <<1, 2, 3>>
         /\ enc = Len(conns)
         /\ LastN(conns[enc].wire, 2) =
                <<Record("batch", <<4, 5>>), Record("batch", <<1, 2, 3>>)>>
         /\ unsentLines = <<>>

\* the scenario has happened
C9_Witness == FailedThenSent

\* C10, as claimed: failed lines held in unsentLines are sent again at the
\* next tick, written lines or not, so that with the collector reachable
\* from then on and the shipper open unsentLines becomes empty (taken from
\* a state in which the producers are still free to write or not)
C10_RetriedAtNextTick ==
    (unsentLines # <<>> /\ reachable /\ written < writeBudget)
        ~> (unsentLines = <<>> \/ quit)

\* C10, amended: unsentLines is sent again only by a flush goroutine, hence
\* one spawned by a tick that found lines pending, after the send of its own
\* snapshot succeeded; a tick that finds no line pending does nothing.  With
\* the collector reachable from then on, a flush goroutine that waits for
\* the lock is followed by unsentLines being empty.
C10_RetriedAfterNextSend ==
    /\ [][\A g \in UnitIds :
            (Len(units'[g].tries) > Len(units[g].tries)
                /\ units'[g].tries[Len(units'[g].tries)].phase = "unsent") =>
               /\ units[g].linesToSend # <<>>
               /\ units[g].tries[1].ok
               /\ units[g].tries[1].l = units[g].linesToSend]_vars
    /\ [](lines = <<>> => ~ENABLED <<LoopTick>>_vars)
    /\ (reachable /\ \E g \in UnitIds : units[g].pc = "lock") ~> (unsentLines = <<>>)

\* lines failed, the collector became reachable, and the goroutine of a
\* later snapshot has sent them and emptied unsentLines
C10_Witness ==
    \E g, h \in UnitIds :
        /\ FailedFresh(g)
        /\ units[h].pc = "done"
        /\ Len(units[h].tries) = 2
        /\ units[h].tries[2].ok
        /\ units[h].tries[2].l = units[g].linesToSend
        /\ reachable
        /\ unsentLines = <<>>

\* the lines held by the shipper: pending, in the snapshot of a flush
\* goroutine that has not returned, or in unsentLines
Held ==
    Range(lines) \cup Range(unsentLines)
        \cup UNION {Range(units[g].linesToSend) : g \in {h \in UnitIds : units[h].pc # "done"}}

RECURSIVE SumN(_)
SumN(es) == IF es = <<>> THEN 0 ELSE Head(es).n + SumN(Tail(es))

\* C11: while the shipper is open every accepted line is pending, in the
\* snapshot of an unfinished flush goroutine, in unsentLines or in a batch
\* encoded with success, except the lines purged from unsentLines, and the
\* purge warnings account for each of those
C11_LinesAccountedFor ==
    ~quit =>
        /\ Held \cup Wired \subseteq 1..accepted
        /\ Cardinality((1..accepted) \ (Held \cup Wired)) = SumN(Warnings)

\* with the shipper open, one line was purged under a warning, one was
\* sent, one is in unsentLines
C11_Witness ==
    /\ ~quit
    /\ SumN(Warnings) > 0
    /\ Wired # {}
    /\ unsentLines # <<>>
    /\ (1..accepted) \ (Held \cup Wired) # {}

\* C12: once Close has been called the loop spawns no flush goroutine and
\* receives no line, and no snapshot holds a line whose Write was called
\* after Close
C12_NothingAfterClose ==
    /\ [][quit => Len(units') = Len(units) /\ accepted' = accepted]_vars
    /\ [](\A g \in UnitIds : Range(units[g].linesToSend) \cap lateLines = {})

\* C13: the lines that were pending or in unsentLines, and not sent, when
\* Close was called are never encoded on a connection afterwards
C13_BufferedAbandoned == atClose \cap Wired = {}

\* what a connection carries before its first batch
Handshake == <<Record("version", <<>>), Record("token", <<>>)>>

IsPrefix(a, b) == Len(a) <= Len(b) /\ \A i \in 1..Len(a) : a[i] = b[i]

\* the protocol version, the token, then batches only
WireInOrder(wire) ==
    /\ IsPrefix(Handshake, wire)
    /\ \A i \in 3..Len(wire) : wire[i].kind = "batch"

\* C14: every connection carries the protocol version, then the token, then
\* batches only; a socket on which connect gave up carries a beginning of
\* the handshake and no batch, and is closed; the encoder, when there is
\* one, writes to a connection whose handshake is complete; nothing but
\* these three kinds of record is written
C14_WireProtocol ==
    /\ \A c \in 1..Len(conns) : conns[c].open /\ WireInOrder(conns[c].wire)
    /\ \A o \in ConnectOutcomes :
          \A i \in 1..Len(ConnectSocket(o)) :
              LET sock == ConnectSocket(o)[i]
              IN  /\ IsPrefix(sock.wire, Handshake)
                  /\ sock.open <=> sock.wire = Handshake
                  /\ sock.open <=> ConnectEncoder(o) # 0
    /\ enc # 0 => enc \in 1..Len(conns)

\* a first connection carried a batch and was given up after a failed
\* Encode; the second one carries the handshake and two batches
C14_Witness ==
    /\ Len(conns) = 2
    /\ enc = 2
    /\ Len(conns[1].wire) = 3
    /\ Len(conns[2].wire) = 4

\* lines x and y were received in the same reporting interval: they are in
\* the same snapshot
SameInterval(x, y) == \E g \in UnitIds : {x, y} \subseteq Range(units[g].linesToSend)

\* lines of the same reporting interval are in ls in the order in which they
\* were received (a line is its ordinal among the received lines)
IntervalOrderKept(ls) ==
    \A i, j \in 1..Len(ls) : (i < j /\ SameInterval(ls[i], ls[j])) => ls[i] < ls[j]

\* the batches encoded with success, on any connection
WiredBatches ==
    UNION {{conns[c].wire[i].lines : i \in 3..Len(conns[c].wire)} : c \in 1..Len(conns)}

\* C15: in every batch encoded on a connection, a snapshot or a resend of
\* unsentLines, and in every batch a flush goroutine tried to send, two lines
\* received in the same reporting interval are in the order in which they
\* were received
C15_OrderWithinInterval ==
    /\ \A b \in WiredBatches : IntervalOrderKept(b)
    /\ \A g \in UnitIds : \A i \in 1..Len(units[g].tries) : IntervalOrderKept(units[g].tries[i].l)
    /\ IntervalOrderKept(unsentLines)

\* a resend put on the wire the lines of two failed snapshots, the later
\* snapshot first and cut down by the purge
C15_Witness == <<5, 6, 1, 2, 3>> \in WiredBatches

\* producer w is not inside a Write call
NotInWrite(w) == w \in Producers /\ wr[w].pc \in {"idle", "returned"}

\* the step in which a Write of producer w returns without the loop having
\* received anything from it: a Write with a nil or empty buffer
EmptyWriteStep(w) == NotInWrite(w) /\ wr'[w] # wr[w] /\ wr'[w].pc = "returned"

\* C16: a Write with a nil or empty buffer can return at once in every
\* state, also after Close and after the loop has returned; it returns
\* (0, nil) and changes nothing else: not the pending buffer, not
\* unsentLines, not the encoder or a connection, no snapshot, and the loop
\* has received nothing
C16_EmptyWriteNoOp ==
    /\ [][\A w \in 1..2 :
            EmptyWriteStep(w) =>
               /\ wr'[w].n = 0
               /\ wr'[w].err = "nil"
               /\ \A v \in Producers \ {w} : wr'[v] = wr[v]
               /\ UNCHANGED <<lines, unsentLines, maxUnsentLines, enc, err, encoderLock,
                              units, quit, loopDone, written, accepted, conns,
                              localEntries, order, atClose, lateLines, unitsAtClose, panicked, logger, lastEntry, exited>>]_vars
    /\ [](\A w \in 1..2 : NotInWrite(w) =>
              /\ ENABLED WriteEmpty(w, "nil")
              /\ ENABLED WriteEmpty(w, "empty"))

\* after Close and the return of the loop, with a line pending and the
\* other producer waiting in a Write called after Close, a producer that
\* had written a line has returned (0, nil) from a Write
C16_Witness ==
    /\ quit
    /\ loopDone
    /\ lines # <<>>
    /\ \E w, v \in Producers :
          /\ wr[w].pc = "returned" /\ wr[w].n = 0 /\ wr[w].err = "nil"
          /\ wr[v].pc = "blocked" /\ wr[v].late
          /\ written = 2

\* the step of a SetLogFile call that succeeded and changed a writer
SetLogFileDone ==
    logger'.textWriter # logger.textWriter \/ logger'.jsonWriter # logger.jsonWriter

\* the step of a WriteJSONToChannel call that set another channel
ChannelSet == logger'.jsonChannel # logger.jsonChannel /\ logger'.jsonChannel # 0

\* the JSON entries an Error call with values writes
NextJSON == writeEntry({Error}, TRUE).json

\* C17: which of SetLogFile and WriteJSONToChannel was called last decides
\* where the JSON entries go: after a successful SetLogFile the JSON entry of
\* a logging call goes to the JSON file, after WriteJSONToChannel it goes to
\* that channel
C17_LastCallDecides ==
    [][/\ SetLogFileDone =>
             NextJSON' = <<[to |-> <<"file", logger'.jsonWriter>>, severity |-> <<"ERROR">>]>>
       /\ ChannelSet =>
             NextJSON' = <<[to |-> <<"channel", logger'.jsonChannel>>, severity |-> <<"ERROR">>]>>]_vars

\* the name of a named level
LevelName(lv) ==
    CASE lv = Debug -> "DEBUG"
      [] lv = Info -> "INFO"
      [] lv = Warning -> "WARNING"
      [] lv = Error -> "ERROR"
      [] lv = Critical -> "CRITICAL"
      [] lv = Fatal -> "FATAL"
      [] lv = Metrics -> "METRICS"

\* the severity sev names each of the levels in ls once, and nothing else
NamesExactly(sev, ls) ==
    /\ Range(sev) = {LevelName(lv) : lv \in ls \cap NamedLevels}
    /\ Len(sev) = Cardinality(ls \cap NamedLevels)

\* C18: for the level argument E of the last logging call and the level set
\* S of the Logger, a text entry was written exactly when E and S share a
\* bit, one only, and its severity names exactly the named levels in both E
\* and S, each once; a JSON entry, when written, has the same severity; with
\* E = Error|Debug and S = Error both entries were written with the
\* severity ERROR
C18_SeverityNamesShared ==
    lastEntry.call # <<>> =>
        LET E == lastEntry.call[1]
            S == logger.logLevel
        IN  /\ Len(lastEntry.text) = (IF E \cap S # {} THEN 1 ELSE 0)
            /\ Len(lastEntry.json) <= Len(lastEntry.text)
            /\ \A i \in 1..Len(lastEntry.text) : NamesExactly(lastEntry.text[i].severity, E \cap S)
            /\ \A i \in 1..Len(lastEntry.json) : NamesExactly(lastEntry.json[i].severity, E \cap S)
            /\ (E = {Error, Debug} /\ S = {Error}) =>
                  /\ lastEntry.text = <<[to |-> <<"file", logger.textWriter>>, severity |-> <<"ERROR">>]>>
                  /\ Len(lastEntry.json) = 1
                  /\ lastEntry.json[1].severity = <<"ERROR">>

\* Write was called with Error|Debug on a Logger with the level set Error
C18_Witness ==
    /\ logger.logLevel = {Error}
    /\ lastEntry.call # <<>>
    /\ lastEntry.call[1] = {Error, Debug}
    /\ lastEntry.text # <<>>
    /\ ~exited

\* C19: with the Fatal level disabled in the level set of the Logger, no
\* logging call has called os.Exit and no entry names the Fatal level
C19_NoExitWhenFatalDisabled ==
    Fatal \notin logger.logLevel =>
        /\ ~exited
        /\ \A i \in 1..Len(lastEntry.text) : "FATAL" \notin Range(lastEntry.text[i].severity)
        /\ \A i \in 1..Len(lastEntry.json) : "FATAL" \notin Range(lastEntry.json[i].severity)

\* the step in which flush goroutine g, its send having returned, appends
\* to unsentLines, purges it or empties it, or goes on to send it again
Bookkeeping(g) ==
    /\ units[g].pc = "sent"
    /\ units'[g] # units[g]

\* C20, as claimed: a flush goroutine holds encoderLock during connect and
\* Encode only, and does not hold it when it updates unsentLines
C20_BookkeepingOutsideLock ==
    [][\A g \in UnitIds : Bookkeeping(g) => encoderLock # g]_vars

\* C20, amended: a flush goroutine holds encoderLock from before its first
\* send until it returns, the update of unsentLines included; while it
\* updates unsentLines no other flush goroutine is inside connect or Encode,
\* and unsentLines changes in no other step
C20_BookkeepingUnderLock ==
    [][/\ \A g \in UnitIds :
             Bookkeeping(g) =>
                /\ encoderLock = g
                /\ \A h \in UnitIds \ {g} : units[h].pc \in {"lock", "done"}
                /\ encoderLock' \in {g, 0}
                /\ encoderLock' = 0 <=> units'[g].pc = "done"
       /\ unsentLines' # unsentLines => \E g \in UnitIds : Bookkeeping(g)]_vars

\* a flush goroutine has appended its failed lines to unsentLines and
\* returned, and two others that were spawned before are still where they
\* wait for the lock
C20_Witness ==
    /\ Len(units) = 3
    /\ FailedFresh(1)
    /\ order = <<1>>
    /\ unsentLines # <<>>
    /\ units[2].pc = "lock"
    /\ units[3].pc = "lock"
    /\ encoderLock = 0

\* ------------------------------------------------------------------ connection
\* goroutine g enters send in this step: send(linesToSend) as it takes the
\* lock, or send(unsentLines) after its first send returned nil
SendStarts(g) ==
    \/ units[g].pc = "lock" /\ units'[g].pc # "lock"
    \/ units[g].phase = "fresh" /\ units'[g].phase = "unsent"

\* a call of send by goroutine g returns in this step
SendReturns(g) == Len(units'[g].tries) > Len(units[g].tries)

LastTry(u) == u.tries[Len(u.tries)]

\* C21: enc is nil until the first send; connect is called only by a send
\* that finds enc nil, and a send that finds an encoder goes to Encode with
\* no connect; after every send that failed, in connect or in Encode, enc is
\* nil; after every send that succeeded enc is the encoder it used, on the
\* same socket, and enc changes in no other step
C21_ConnectionLifecycle ==
    /\ order = <<>> => enc = 0 /\ conns = <<>>
    /\ \A g \in UnitIds :
          /\ units[g].pc = "connect" => enc = 0 /\ encoderLock = g
          /\ units[g].pc = "encode" => enc # 0 /\ encoderLock = g
    /\ [][/\ \A g \in UnitIds :
                /\ SendStarts(g) => units'[g].pc = IF enc = 0 THEN "connect" ELSE "encode"
                /\ SendReturns(g) /\ ~LastTry(units'[g]).ok => enc' = 0
                /\ SendReturns(g) /\ LastTry(units'[g]).ok =>
                      /\ enc' = enc
                      /\ enc # 0
                      /\ Len(conns') = Len(conns)
                      /\ conns'[enc].wire = Append(conns[enc].wire, Record("batch", units[g].l))
          /\ conns' # conns /\ enc = 0 =>
                /\ \E g \in UnitIds : units[g].pc = "connect"
                /\ conns' = Append(conns, [open |-> TRUE, wire |-> Handshake])
                /\ enc' = Len(conns')
          /\ enc' # enc =>
                \E g \in UnitIds : units[g].pc \in {"connect", "encode"} /\ units'[g].pc # units[g].pc]_vars

\* a goroutine is in Encode for its second send on the second connection of
\* the run, which carries the batch of its first send: the first connection
\* was dropped after a failed Encode, and the second send has made no connect
C21_Witness ==
    /\ Len(conns) = 2
    /\ enc = 2
    /\ Len(conns[2].wire) = 3
    /\ \E g \in UnitIds :
          /\ units[g].pc = "encode"
          /\ units[g].phase = "unsent"
          /\ Len(conns[1].wire) >= 3

\* the connect called by goroutine g returns an error in this step
ConnectFails(g) == units[g].pc = "connect" /\ units'[g].pc = "sent"

\* C22: a connect that fails at any of its steps returns an error and no
\* encoder, and leaves no open socket and no batch record behind; the send
\* that called it leaves enc nil, encodes nothing, and returns the error, and
\* the goroutine then appends its snapshot to unsentLines
C22_ConnectFailure ==
    /\ \A o \in ConnectOutcomes \ {"ok"} :
          /\ ConnectError(o) = "error"
          /\ ConnectEncoder(o) = 0
          /\ o \in {"dns", "dial"} => ConnectSocket(o) = <<>>
          /\ \A i \in 1..Len(ConnectSocket(o)) :
                /\ ~ConnectSocket(o)[i].open
                /\ \A j \in 1..Len(ConnectSocket(o)[i].wire) :
                      ConnectSocket(o)[i].wire[j].kind # "batch"
    /\ \A g \in UnitIds :
          (units[g].pc = "sent" /\ ~LastTry(units[g]).ok) => err = "error" /\ enc = 0
    /\ [][\A g \in UnitIds :
             /\ ConnectFails(g) =>
                   /\ enc = 0
                   /\ enc' = 0
                   /\ err' = "error"
                   /\ conns' = conns
                   /\ unsentLines' = unsentLines
                   /\ units'[g].tries =
                         <<[phase |-> "fresh", l |-> units[g].linesToSend, ok |-> FALSE]>>
             /\ FailedFreshEnds(g) =>
                   unsentLines' =
                       Newest(unsentLines \o units[g].linesToSend, maxUnsentLines)]_vars

\* no socket was ever left open, so every send failed in connect: the first
\* goroutine has returned and its snapshot is in unsentLines
C22_Witness ==
    /\ Len(units) >= 1
    /\ FailedFresh(1)
    /\ conns = <<>>
    /\ enc = 0
    /\ unsentLines = units[1].linesToSend
    /\ localEntries = <<[sev |-> "ERROR", n |-> 0]>>

\* the sockets the shipper opened and has not closed
OpenSockets == {c \in 1..Len(conns) : conns[c].open}

\* C23: at any instant at most one socket opened by the shipper is open
C23_OneOpenSocket == Cardinality(OpenSockets) <= 1

\* ------------------------------------------------------------------ flush goroutines and Close
\* connect and Encode return, with whatever outcome
ReturnFair ==
    WF_vars(\E g \in 1..Len(units) :
                \/ \E outcome \in ConnectOutcomes : Connect(g, outcome)
                \/ \E ok \in BOOLEAN : Encode(g, ok))

\* the flush goroutines are scheduled fairly, and connect and Encode return;
\* nothing is assumed of the loop
ReturnLiveSpec == LiveInit /\ [][Next]_vars /\ FlushFair /\ ReturnFair

\* a call of Close returns in this step
CloseStep == quit' # quit \/ panicked' # panicked

\* goroutine g was spawned before Close was called and has not returned
PendingAtClose(g) == quit /\ g <= unitsAtClose /\ g \in UnitIds /\ units[g].pc # "done"

\* goroutine g has taken the lock, has made at least one call of send, has
\* returned and has released the lock
Finished(g) ==
    /\ g \in UnitIds
    /\ units[g].pc = "done"
    /\ g \in Range(order)
    /\ units[g].tries # <<>>
    /\ encoderLock # g

\* C24: Close can be called whatever the flush goroutines are doing and
\* changes neither them nor encoderLock nor unsentLines; every flush
\* goroutine spawned before Close that has not returned when Close is called
\* goes on to take the lock, to send, to update unsentLines when its send
\* failed, and to release the lock, when connect and Encode return
C24_FlushSurvivesClose ==
    /\ [](mayClose /\ ~quit => ENABLED Close)
    /\ [][CloseStep =>
             /\ units' = units
             /\ encoderLock' = encoderLock
             /\ unsentLines' = unsentLines
             /\ enc' = enc]_vars
    /\ [][\A g \in UnitIds :
             (quit /\ g <= unitsAtClose /\ FailedFreshEnds(g)) =>
                 unsentLines' = Newest(unsentLines \o units[g].linesToSend, maxUnsentLines)]_vars
    /\ \A g \in 1..2 :
          [](PendingAtClose(g) => <>Finished(g))

\* both flush goroutines were spawned before Close; the lines of the first
\* were in unsentLines when Close was called, and the second has sent them
\* after Close, in its second send, and has returned
C24_Witness ==
    /\ quit
    /\ unitsAtClose = 2
    /\ Finished(2)
    /\ encoderLock = 0
    /\ unsentLines = <<>>
    /\ Range(units[1].linesToSend) \subseteq atClose \cap Wired

\* ------------------------------------------------------------------ duplicates
\* the lines of all the batches encoded with success, connection after
\* connection, a line as many times as it was encoded
WiredLines ==
    Concat([c \in 1..Len(conns) |->
               Concat([i \in 1..Len(conns[c].wire) |-> conns[c].wire[i].lines])])

NoDuplicates(s) == \A i, j \in 1..Len(s) : i # j => s[i] # s[j]

\* the calls of send that have returned nil, of all the flush goroutines
SentTries ==
    UNION {{units[g].tries[i] : i \in {k \in 1..Len(units[g].tries) : units[g].tries[k].ok}} :
               g \in UnitIds}

\* C25: no accepted line is in more than one batch encoded with success, and
\* a send is given no line that an earlier successful send was given
C25_SentOnce ==
    /\ NoDuplicates(WiredLines)
    /\ [][\A g \in UnitIds :
             SendStarts(g) =>
                /\ Range(units'[g].l) \cap Wired = {}
                /\ \A t \in SentTries : Range(units'[g].l) \cap Range(t.l) = {}]_vars

\* three lines were accepted and each is in one batch; the first was in a
\* send that failed and was sent again by the second goroutine, and the
\* third goroutine found unsentLines empty
C25_Witness ==
    /\ Len(units) = 3
    /\ \A g \in UnitIds : units[g].pc = "done"
    /\ FailedFresh(1)
    /\ Len(units[2].tries) = 2
    /\ Len(units[3].tries) = 1
    /\ Len(WiredLines) = 3
    /\ Range(WiredLines) = 1..3

\* ------------------------------------------------------------------ number of flush goroutines
\* the flush goroutines spawned that have not returned
Unfinished == {g \in UnitIds : units[g].pc # "done"}

\* those of them that wait for encoderLock
Waiting == {g \in UnitIds : units[g].pc = "lock"}

\* the loop takes a tick in this step
TickStep == ~loopDone /\ Len(lines) \in tickAt /\ wr' = wr /\ accepted' = accepted /\ loopDone' = loopDone
               /\ quit' = quit /\ panicked' = panicked /\ reachable' = reachable
               /\ encoderLock' = encoderLock /\ \A g \in UnitIds : units'[g] = units[g]

\* C26: whatever the number of flush goroutines that have not returned, and
\* whoever holds encoderLock, a tick that finds lines pending can be taken
\* and spawns one more goroutine with its own snapshot; spawning changes none
\* of the goroutines spawned before, and neither unsentLines nor the
\* warnings: the snapshots of waiting goroutines are kept whole, whatever
\* their number of lines
C26_UnitsNotBounded ==
    /\ [](~loopDone /\ lines # <<>> /\ Len(lines) \in tickAt =>
              ENABLED (LoopTick /\ Len(units') = Len(units) + 1))
    /\ [][(TickStep /\ lines # <<>>) =>
             /\ units' = Append(units, NewUnit(lines))
             /\ unsentLines' = unsentLines
             /\ localEntries' = localEntries]_vars
    /\ [][\A g \in UnitIds :
             units[g].pc = "lock" =>
                /\ units'[g].linesToSend = units[g].linesToSend
                /\ units'[g].pc # "done"]_vars

\* with a capacity of 5 lines three goroutines of 3 lines each have not
\* returned: one holds the lock, two wait with 6 lines, and nothing was purged
C26_Witness ==
    /\ Len(units) = 3
    /\ Cardinality(Unfinished) = 3
    /\ Cardinality(Waiting) = 2
    /\ encoderLock # 0
    /\ \A g \in UnitIds : Len(units[g].linesToSend) = 3
    /\ maxUnsentLines = 5
    /\ unsentLines = <<>>
    /\ Warnings = <<>>

\* ------------------------------------------------------------------ Close twice
\* C27: a second call of Close returns nil like the first and raises no panic
C27_CloseIdempotent == ~panicked

====
